---- MODULE Spec2Model ----
(***************************************************************************)
(* H264Decoder (packages/den/video/H264Decoder.ts, the class with the      *)
(* #hasKeyframe / #decoding fields): the decode orchestrator in front of a  *)
(* WebCodecs VideoDecoder.                                                  *)
(*                                                                          *)
(* JavaScript runs one job at a time.  A decode() call runs synchronously   *)
(* up to its first await; a resolved promise queues the continuations of    *)
(* the calls awaiting it, in the order they started to await, on the        *)
(* microtask queue; tasks (a caller's call, a timer, an engine callback)    *)
(* run only when the microtask queue is empty.                              *)
(***************************************************************************)
EXTENDS Integers, Sequences, FiniteSets, TLC

\* ---------------------------------------------------------------- bounds
\* decode() calls made in one behaviour of Spec
MaxCalls == 2
\* decode() calls made in one behaviour of SpecStream (key/delta chunks only)
MaxStreamCalls == 5
\* resetForSeek() and close() calls, together
MaxControl == 1
\* asynchronous engine faults
MaxFaults == 1
\* decode() calls made in one behaviour of SpecTs
MaxTsCalls == 2

\* decode() calls made in one behaviour of SpecSeq
MaxSeqCalls == 5
\* NAL units in a chunk whose unit headers are enumerated
MaxUnits == 2
\* bytes in a NAL unit whose bytes are enumerated
MaxUnitLen == 3
\* reads made of one bit reader
MaxReads == 2
\* decode() calls of the scheduled program
MaxLiveCalls == 2

CallBounds == {MaxCalls, MaxStreamCalls, MaxTsCalls, MaxSeqCalls, MaxLiveCalls}
CallCap == CHOOSE n \in CallBounds : \A m \in CallBounds : m <= n
Calls == 1..CallCap
\* the frame decoded from the submission with internal timestamp t is frame t+1
Frames == 1..CallCap

\* ------------------------------------------------------- program constants
NaluTypeIDR == 5
NaluTypeSPS == 7

\* --------------------------------------------------------------- chunks
\* A chunk as the parsing helpers see it: stream is what strict NALUStream
\* detection reports for the buffer ("annexB", "packet", or "unknown" when it
\* throws or cannot tell), nalus the first (header) byte of each NAL unit in
\* order, sps what new SPS() gives for each unit: the configuration it parses
\* to (0: it throws, or the unit is no SPS).
\* Header bytes: 103 = 0x67 (SPS), 101 = 0x65 (IDR slice), 65 = 0x41 (non-IDR
\* slice).
ChunkKey(s) == [stream |-> s, nalus |-> <<103, 101>>, sps |-> <<1, 0>>]
ChunkDelta(s) == [stream |-> s, nalus |-> <<65>>, sps |-> <<0>>]
\* an SPS declaring another picture size (configuration 3), and a non-IDR slice
ChunkSpsDelta(s) == [stream |-> s, nalus |-> <<103, 65>>, sps |-> <<3, 0>>]
\* a first SPS that does not parse, a second one that does, and an IDR slice
ChunkBadSps(s) == [stream |-> s, nalus |-> <<103, 103, 101>>, sps |-> <<0, 1, 0>>]
\* an SPS that parses, to a configuration the engine refuses (its cropping
\* leaves no picture: codedWidth 0)
ChunkVoidSps(s) == [stream |-> s, nalus |-> <<103, 101>>, sps |-> <<2, 0>>]
\* bytes that are neither (ff ff ff): no start code, and a length prefix that
\* overruns the buffer
ChunkUnknown == [stream |-> "unknown", nalus |-> <<>>, sps |-> <<>>]
NoChunk == [stream |-> "none", nalus |-> <<>>, sps |-> <<>>]

ChunksOf(s) == {ChunkKey(s), ChunkDelta(s), ChunkSpsDelta(s), ChunkBadSps(s), ChunkUnknown}
\* the chunks of a stream whose SPS declares a picture the engine refuses
VoidChunksOf(s) == {ChunkVoidSps(s), ChunkDelta(s), ChunkUnknown}
StreamChunksOf(s) == {ChunkKey(s), ChunkDelta(s)}

\* the caller's timestampMicros arguments
CallerTimestamps == {10, 20}
\* the timestampMicros of the calls of Spec and SpecStream
SomeTimestamp == CHOOSE t \in CallerTimestamps : \A u \in CallerTimestamps : t <= u

\* ------------------------------------------------------------- Bit Reader
\* A reader over the byte sequence bytes with its cursor at bit pos (0 is the
\* most significant bit of the first byte).

WordBits == 32

\* the bit at offset p
BitAt(bytes, p) == (bytes[(p \div 8) + 1] \div 2^(7 - (p % 8))) % 2

\* the n bits from offset p as a number, the first bit the most significant
RECURSIVE BitsValue(_, _, _)
BitsValue(bytes, p, n) ==
  IF n = 0 THEN 0 ELSE 2 * BitsValue(bytes, p, n - 1) + BitAt(bytes, p + n - 1)

\* seek(bitOffset): absolute positioning
seek(bytes, p) ==
  IF p > 8 * Len(bytes) THEN [ok |-> FALSE, err |-> "OutOfRange", pos |-> 0]
  ELSE [ok |-> TRUE, err |-> "none", pos |-> p]

\* faulty variant: a read leaves the cursor where it was
readUnsignedStill(bytes, pos, n) ==
  IF pos + n > 8 * Len(bytes)
  THEN [ok |-> FALSE, err |-> "Truncated", value |-> 0, pos |-> pos]
  ELSE [ok |-> TRUE, err |-> "none", value |-> BitsValue(bytes, pos, n), pos |-> pos]

\* readUnsigned(n) with the cursor at pos: the value and the new cursor, or
\* Truncated when fewer than n bits remain
readUnsigned(bytes, pos, n) ==
  IF pos + n > 8 * Len(bytes)
  THEN [ok |-> FALSE, err |-> "Truncated", value |-> 0, pos |-> pos]
  ELSE [ok |-> TRUE, err |-> "none", value |-> BitsValue(bytes, pos, n), pos |-> pos + n]

\* the number of 0 bits from offset p up to the first 1 bit, or to the end
RECURSIVE ZeroBitsFrom(_, _)
ZeroBitsFrom(bytes, p) ==
  IF p >= 8 * Len(bytes) \/ BitAt(bytes, p) = 1 THEN 0 ELSE 1 + ZeroBitsFrom(bytes, p + 1)

\* faulty variant: the suffix is returned as the value
readExpGolombSuffix(bytes, pos) ==
  LET k == ZeroBitsFrom(bytes, pos) IN
  IF pos + 2 * k + 1 > 8 * Len(bytes)
  THEN [ok |-> FALSE, err |-> "Truncated", value |-> 0, pos |-> pos]
  ELSE [ok |-> TRUE, err |-> "none", value |-> BitsValue(bytes, pos + k + 1, k),
        pos |-> pos + 2 * k + 1]

\* readExpGolomb() with the cursor at pos: k zero bits, a 1 bit and k suffix
\* bits give 2^k - 1 + suffix; Truncated when the bits run out
readExpGolomb(bytes, pos) ==
  LET k == ZeroBitsFrom(bytes, pos) IN
  IF pos + 2 * k + 1 > 8 * Len(bytes)
  THEN [ok |-> FALSE, err |-> "Truncated", value |-> 0, pos |-> pos]
  ELSE [ok |-> TRUE, err |-> "none",
        value |-> 2^k - 1 + BitsValue(bytes, pos + k + 1, k),
        pos |-> pos + 2 * k + 1]

\* readSignedExpGolomb(): code numbers 1, 2, 3, 4 are 1, -1, 2, -2
readSignedExpGolomb(bytes, pos) ==
  LET r == readExpGolomb(bytes, pos) IN
  [r EXCEPT !.value = IF @ % 2 = 0 THEN -(@ \div 2) ELSE (@ + 1) \div 2]

\* ------------------------------------------------------------ SPS parser
\* The fields of an SPS NAL unit, read with the bit reader from the bit after
\* the one-byte header.

HighProfiles == {100, 110, 122, 244, 44, 83, 86, 118, 128, 138, 139, 134, 135}

\* a field that is absent: nothing is read
NoField(p) == [ok |-> TRUE, err |-> "none", value |-> 0, pos |-> p]

\* n fields se(v) in a row from offset p
RECURSIVE SkipSigned(_, _, _)
SkipSigned(nalu, p, n) ==
  IF n = 0 THEN NoField(p)
  ELSE LET r == readSignedExpGolomb(nalu, p) IN
       IF r.ok THEN SkipSigned(nalu, r.pos, n - 1) ELSE r

\* the fields in the order they are read
SpsFieldOrder ==
  <<"profile", "constraints", "level", "spsId", "chroma", "plane", "depthLuma",
    "depthChroma", "bypass", "scaling", "frameNum", "pocType", "pocLsb", "pocZero",
    "pocOffsets", "pocCycle", "pocRefs", "refFrames", "gaps", "widthInMbs",
    "heightInMapUnits", "frameMbsOnly", "adaptive", "direct", "cropping", "cropLeft",
    "cropRight", "cropTop", "cropBottom">>

\* the parser before its first read: the cursor after the header byte
SpsStart ==
  [ok |-> TRUE, pos |-> 8,
   v |-> [f \in {SpsFieldOrder[i] : i \in DOMAIN SpsFieldOrder} |-> 0]]

\* the read of one field at offset p, v holding the values of the fields
\* before it; a field whose condition does not hold is not read
ReadSpsField(nalu, name, p, v) ==
  LET high == v["profile"] \in HighProfiles
      bits(n) == readUnsigned(nalu, p, n)
      ue == readExpGolomb(nalu, p)
      when(cond, r) == IF cond THEN r ELSE NoField(p)
  IN CASE name \in {"profile", "constraints", "level"} -> bits(8)
       [] name \in {"spsId", "frameNum", "pocType", "refFrames", "widthInMbs",
                    "heightInMapUnits"} -> ue
       [] name = "chroma" -> IF high THEN ue ELSE [NoField(p) EXCEPT !.value = 1]
       [] name = "plane" -> when(high /\ v["chroma"] = 3, bits(1))
       [] name \in {"depthLuma", "depthChroma"} -> when(high, ue)
       [] name \in {"bypass", "scaling"} -> when(high, bits(1))
       [] name = "pocLsb" -> when(v["pocType"] = 0, ue)
       [] name = "pocZero" -> when(v["pocType"] = 1, bits(1))
       [] name = "pocOffsets" -> when(v["pocType"] = 1, SkipSigned(nalu, p, 2))
       [] name = "pocCycle" -> when(v["pocType"] = 1, ue)
       [] name = "pocRefs" -> when(v["pocType"] = 1, SkipSigned(nalu, p, v["pocCycle"]))
       [] name \in {"gaps", "frameMbsOnly", "direct", "cropping"} -> bits(1)
       [] name = "adaptive" -> when(v["frameMbsOnly"] = 0, bits(1))
       [] name \in {"cropLeft", "cropRight", "cropTop", "cropBottom"}
            -> when(v["cropping"] = 1, ue)

\* the parser st after the read of field i
SpsAfterField(nalu, st, i) ==
  LET r == ReadSpsField(nalu, SpsFieldOrder[i], st.pos, st.v)
  IN [ok |-> st.ok /\ r.ok, pos |-> r.pos,
      v |-> [st.v EXCEPT ![SpsFieldOrder[i]] = r.value]]

\* the parser after the fields from the i-th on; each state is worked out
\* once and handed on
RECURSIVE ReadSpsFields(_, _, _)
ReadSpsFields(nalu, st, i) ==
  IF i > Len(SpsFieldOrder) THEN st
  ELSE ReadSpsFields(nalu,
                     CHOOSE next \in {SpsAfterField(nalu, s, i) : s \in {st}} : TRUE,
                     i + 1)

\* the result for the parser after its last field
SpsResult(st) ==
  LET v == st.v
      cropUnitX == IF v["chroma"] = 1 THEN 2 ELSE 1
      cropUnitY == (IF v["chroma"] = 1 THEN 2 ELSE 1) * (2 - v["frameMbsOnly"])
  IN IF ~st.ok THEN [ok |-> FALSE, err |-> "SPSParseError"]
     ELSE IF v["scaling"] = 1 THEN [ok |-> FALSE, err |-> "UnsupportedFeature"]
     ELSE [ok |-> TRUE, err |-> "none",
           profile |-> v["profile"], constraints |-> v["constraints"],
           level |-> v["level"],
           picWidth |-> (v["widthInMbs"] + 1) * 16
                          - (v["cropLeft"] + v["cropRight"]) * cropUnitX,
           picHeight |-> (2 - v["frameMbsOnly"]) * (v["heightInMapUnits"] + 1) * 16
                           - (v["cropTop"] + v["cropBottom"]) * cropUnitY]

\* the SPS: [ok, err] and, when ok, the identification bytes and the geometry
ParseSps(nalu) ==
  CHOOSE sps \in {SpsResult(st) : st \in {ReadSpsFields(nalu, SpsStart, 1)}} : TRUE

\* the two hexadecimal digits of a byte
HexDigits == <<"0", "1", "2", "3", "4", "5", "6", "7", "8", "9", "a", "b", "c", "d", "e", "f">>
Hex(b) == <<HexDigits[(b \div 16) + 1], HexDigits[(b % 16) + 1]>>

\* the codec identifier: the prefix and the three identification bytes
Mime(sps) == <<"avc1.">> \o Hex(sps.profile) \o Hex(sps.constraints) \o Hex(sps.level)

\* ------------------------------------------------------- NAL unit streams
\* Buffers are sequences of bytes; a descriptor is [type, boxSize] with type
\* "packet" (length-prefixed), "annexB" or "unknown".

StartCode == <<0, 0, 0, 1>>
ShortStartCode == <<0, 0, 1>>

\* the bytes of pat stand in buf at position p
StartsWith(buf, p, pat) ==
  /\ p + Len(pat) - 1 <= Len(buf)
  /\ \A i \in DOMAIN pat : buf[p + i - 1] = pat[i]

\* the w-byte big-endian number at position p
RECURSIVE BigEndianAt(_, _, _)
BigEndianAt(buf, p, w) ==
  IF w = 0 THEN 0 ELSE 256 * BigEndianAt(buf, p, w - 1) + buf[p + w - 1]

\* iterate(buffer, LengthPrefixed) from position p: the payloads, or Malformed
\* when a prefix or a payload overruns the buffer
RECURSIVE IterateLengthPrefixed(_, _, _)
IterateLengthPrefixed(buf, p, w) ==
  IF p > Len(buf) THEN [ok |-> TRUE, units |-> <<>>]
  ELSE IF p + w - 1 > Len(buf) THEN [ok |-> FALSE, units |-> <<>>]
  ELSE LET n == BigEndianAt(buf, p, w) IN
       IF p + w + n - 1 > Len(buf) THEN [ok |-> FALSE, units |-> <<>>]
       ELSE LET rest == IterateLengthPrefixed(buf, p + w + n, w) IN
            [ok |-> rest.ok,
             units |-> IF rest.ok THEN <<SubSeq(buf, p + w, p + w + n - 1)>> \o rest.units
                       ELSE <<>>]

\* iterate(buffer, AnnexB) from position p, cur being the bytes read since the
\* last start code: the ranges between start codes, zero-length ranges skipped
RECURSIVE IterateAnnexB(_, _, _)
IterateAnnexB(buf, p, cur) ==
  LET range == IF cur = <<>> THEN <<>> ELSE <<cur>> IN
  IF p > Len(buf) THEN range
  ELSE IF StartsWith(buf, p, StartCode) THEN range \o IterateAnnexB(buf, p + 4, <<>>)
  ELSE IF StartsWith(buf, p, ShortStartCode) THEN range \o IterateAnnexB(buf, p + 3, <<>>)
  ELSE IterateAnnexB(buf, p + 1, Append(cur, buf[p]))

\* iterate(buffer, descriptor)
Iterate(buf, desc) ==
  CASE desc.type = "packet" -> IterateLengthPrefixed(buf, 1, desc.boxSize)
    [] desc.type = "annexB" -> [ok |-> TRUE, units |-> IterateAnnexB(buf, 1, <<>>)]
    [] OTHER -> [ok |-> FALSE, units |-> <<>>]

\* classify, interpretation (b): a start code at the start, and every range
\* between start codes begins with a byte whose low five bits are not 0
LooksAnnexB(buf) ==
  /\ StartsWith(buf, 1, StartCode) \/ StartsWith(buf, 1, ShortStartCode)
  /\ \A i \in DOMAIN IterateAnnexB(buf, 1, <<>>) :
       IterateAnnexB(buf, 1, <<>>)[i][1] % 32 # 0

\* classify(buffer): the length-prefixed interpretation is tried first, with
\* the prefix widths 4, 2 and 1 in this order, then the start-code one
Classify(buf) ==
  IF IterateLengthPrefixed(buf, 1, 4).ok THEN [type |-> "packet", boxSize |-> 4]
  ELSE IF IterateLengthPrefixed(buf, 1, 2).ok THEN [type |-> "packet", boxSize |-> 2]
  ELSE IF IterateLengthPrefixed(buf, 1, 1).ok THEN [type |-> "packet", boxSize |-> 1]
  ELSE IF LooksAnnexB(buf)
       THEN [type |-> "annexB",
             boxSize |-> IF StartsWith(buf, 1, StartCode) THEN 4 ELSE 3]
  ELSE [type |-> "unknown", boxSize |-> 0]

\* convertToAnnexB of a length-prefixed buffer from position p: each prefix
\* becomes 00 00 00 01, the payload bytes are copied
RECURSIVE ConvertLengthPrefixed(_, _, _)
ConvertLengthPrefixed(buf, p, w) ==
  IF p > Len(buf) THEN <<>>
  ELSE LET n == BigEndianAt(buf, p, w) IN
       StartCode \o SubSeq(buf, p + w, p + w + n - 1)
         \o ConvertLengthPrefixed(buf, p + w + n, w)

\* convertToAnnexB(buffer, descriptor): [ok, buf]; Malformed when the buffer
\* does not iterate under the descriptor
ConvertToAnnexB(buf, desc) ==
  CASE desc.type = "annexB" -> [ok |-> TRUE, buf |-> buf]
    [] desc.type = "packet" /\ IterateLengthPrefixed(buf, 1, desc.boxSize).ok
         -> [ok |-> TRUE, buf |-> ConvertLengthPrefixed(buf, 1, desc.boxSize)]
    [] OTHER -> [ok |-> FALSE, buf |-> <<>>]

\* lines 502-504: bitstream.seek(3); bitstream.u(5) on a unit, for every value
\* of its header byte
NalUnitTypes == [b \in 0..255 |-> readUnsigned(<<b>>, seek(<<b>>, 3).pos, 5).value]

\* faulty variant: the five bits are read from the start of the header byte
NalUnitTypeNoSeek(b) == readUnsigned(<<b>>, 0, 5).value

\* lines 502-504: the type of a unit whose header byte is b
NalUnitType(b) == NalUnitTypes[b]

\* faulty variant: no chunk is taken for a key frame
isKeyFrameNever(nalus) == FALSE

\* isKeyFrame(annexBFrame): some NAL unit is an IDR
isKeyFrame(nalus) == \E i \in DOMAIN nalus : NalUnitType(nalus[i]) = NaluTypeIDR

\* faulty variant: an "unknown" detection is returned as a descriptor
identifyNaluStreamInfoAny(ch) == ch.stream

\* _identifyNaluStreamInfo(buffer): the detected type, or "none" (undefined)
identifyNaluStreamInfo(ch) ==
  IF ch.stream \in {"annexB", "packet"} THEN ch.stream ELSE "none"

\* faulty variant: every chunk is classified, the cached value is not used
getNaluStreamInfoAlways(cached, ch) == identifyNaluStreamInfo(ch)

\* _getNaluStreamInfo(data): the cached value when there is one
getNaluStreamInfo(cached, ch) ==
  IF cached = "none" THEN identifyNaluStreamInfo(ch) ELSE cached

\* lines 403-423: _getAnnexBFrame(data), given the stream info: the NAL units
\* the Annex B frame carries ("packet" is rewritten unit by unit, "annexB" is
\* the data).  convertToAnnexB() of line 415 throws Malformed for a buffer
\* that is not length-prefixed, and nothing catches it: threw.  ok is FALSE
\* when undefined is returned or the conversion threw.
getAnnexBFrame(info, ch) ==
  CASE info = "packet" /\ ch.stream = "packet"
         -> [ok |-> TRUE, threw |-> FALSE, nalus |-> [i \in DOMAIN ch.nalus |-> ch.nalus[i]]]
    [] info = "packet" -> [ok |-> FALSE, threw |-> TRUE, nalus |-> <<>>]
    [] info = "annexB" -> [ok |-> TRUE, threw |-> FALSE, nalus |-> ch.nalus]
    [] OTHER -> [ok |-> FALSE, threw |-> FALSE, nalus |-> <<>>]

\* _identifyNaluStreamInfo(buffer) on the bytes of a buffer: the descriptor,
\* or NoInfo (undefined) when the type is "unknown"
NoInfo == [type |-> "none", boxSize |-> 0]

identifyNaluStreamInfoBytes(buf) ==
  IF Classify(buf).type \in {"packet", "annexB"} THEN Classify(buf) ELSE NoInfo

\* _getNaluStreamInfo(data) on the bytes of a buffer
getNaluStreamInfoBytes(cached, buf) ==
  IF cached = NoInfo THEN identifyNaluStreamInfoBytes(buf) ELSE cached

\* faulty variant: the data is handed on as it came
getAnnexBFrameBytesRaw(info, buf) == [ok |-> info # NoInfo, threw |-> FALSE, buf |-> buf]

\* faulty variant: the box size of the descriptor is not handed to the stream,
\* which takes it to be 4
getAnnexBFrameBytesAnySize(info, buf) ==
  CASE info.type = "packet"
         -> LET r == ConvertToAnnexB(buf, [type |-> "packet", boxSize |-> 4])
            IN [ok |-> r.ok, threw |-> ~r.ok, buf |-> r.buf]
    [] info.type = "annexB" -> [ok |-> TRUE, threw |-> FALSE, buf |-> buf]
    [] OTHER -> [ok |-> FALSE, threw |-> FALSE, buf |-> <<>>]

\* _getAnnexBFrame(data) on the bytes of a buffer, given the stream info:
\* [ok, threw, buf]; threw when convertToAnnexB() of line 415 throws
\* Malformed, ok is FALSE then and when undefined is returned
getAnnexBFrameBytes(info, buf) ==
  CASE info.type = "packet"
         -> LET r == ConvertToAnnexB(buf, info)
            IN [ok |-> r.ok, threw |-> ~r.ok, buf |-> r.buf]
    [] info.type = "annexB" -> [ok |-> TRUE, threw |-> FALSE, buf |-> buf]
    [] OTHER -> [ok |-> FALSE, threw |-> FALSE, buf |-> <<>>]

\* what _getDecoderConfig makes of a unit that is not a usable SPS
NoConfig == [ok |-> FALSE]

\* faulty variant: width and height change places
SpsDecoderConfigSwapped(nalu) ==
  LET sps == ParseSps(nalu) IN
  IF ~sps.ok THEN NoConfig
  ELSE [ok |-> TRUE, codec |-> Mime(sps), codedHeight |-> sps.picWidth,
        codedWidth |-> sps.picHeight, optimizeForLatency |-> TRUE]

\* lines 459-473: the VideoDecoderConfig made from an SPS NAL unit, NoConfig
\* when new SPS(...) throws
SpsDecoderConfig(nalu) ==
  LET sps == ParseSps(nalu) IN
  IF ~sps.ok THEN NoConfig
  ELSE [ok |-> TRUE, codec |-> Mime(sps), codedHeight |-> sps.picHeight,
        codedWidth |-> sps.picWidth, optimizeForLatency |-> TRUE]

\* index of the first SPS NAL unit, 0 when there is none
RECURSIVE FirstSps(_, _)
FirstSps(nalus, i) ==
  IF i > Len(nalus) THEN 0
  ELSE IF NalUnitType(nalus[i]) = NaluTypeSPS THEN i
  ELSE FirstSps(nalus, i + 1)

\* _getDecoderConfig(annexBFrame): [config, cache, err]; config 0 is undefined.
\* The loop returns at the first SPS unit, whether it parses or not.
getDecoderConfig(cached, nalus, sps) ==
  LET i == FirstSps(nalus, 1) IN
  IF cached # 0 THEN [config |-> cached, cache |-> cached, err |-> FALSE]
  ELSE IF i = 0 THEN [config |-> 0, cache |-> 0, err |-> FALSE]
  ELSE IF sps[i] # 0 THEN [config |-> sps[i], cache |-> sps[i], err |-> FALSE]
  ELSE [config |-> 0, cache |-> 0, err |-> TRUE]

\* ------------------------------------------------- the external engine
\* VideoDecoder.decode(chunk) throws when a key chunk is required (after
\* configure() or reset()) and the chunk is a delta chunk.
EngineAccepts(keyReq, type) == ~(keyReq /\ type = "delta")

\* VideoDecoder.configure(config) throws a TypeError when config is not a
\* valid VideoDecoderConfig (configuration 2: no picture area)
EngineConfigures(config) == config # 2

\* VideoDecoder.reset(): WebCodecs leaves the decoder unconfigured; the
\* engine interface of the spec lets it keep its configuration.
EngineStatesAfterReset(st) ==
  IF st = "configured" THEN {"unconfigured", "configured"} ELSE {"unconfigured"}

\* ---------------------------------------------------------------- state
\* what probe holds while the orchestrator runs
NoProbe == [stage |-> "none"]

VARIABLES
  probe,               \* the input and results of the byte-level functions under study
  stream,              \* container convention of the stream the caller feeds
  geometry,            \* what the stream's SPS declares: 1 a picture, 2 none (see ChunkVoidSps)
  decoderState,        \* this.#decoder.state
  engineGen,           \* which VideoDecoder instance this.#decoder is
  engineQueue,         \* frames the engine has accepted work for, oldest first
  keyRequired,         \* the engine's "key chunk required" flag
  engineConfig,        \* the configuration the engine is configured with (0: none)
  naluStreamInfo,      \* this.#naluStreamInfo ("none": undefined)
  videoDecoderConfig,  \* this.#videoDecoderConfig (0: undefined)
  hasKeyframe,         \* this.#hasKeyframe
  decoding,            \* this.#decoding: the call whose promise it holds, 0: undefined
  pendingFrame,        \* this.#pendingFrame (0: undefined)
  timestamp,           \* this.#timestamp
  nCalls,              \* decode() calls made so far; calls are numbered in call order
  pc,                  \* per call: "new", "waitPrev" (line 288), "awaitOwn" (line 373), "done"
  chunkOf,             \* per call: its data argument
  awaits,              \* per call: the call whose promise it awaits (0: none)
  promise,             \* per call: its #decoding promise: "none", "pending", "frame", "timeout"
  result,              \* per call: -1 not returned, 0 undefined, else the frame returned
  diag,                \* per call: the events it emitted
  microtasks,          \* continuations ready to run, in order
  listeners,           \* once("frame") listeners registered, by call, in order
  timers,              \* armed 30 ms timers, by call, in order of expiry
  closedCount,         \* per frame: how often the orchestrator called close() on it
  outputs,             \* frames the engine has output
  submissions,         \* every this.#decoder.decode() call made, in order
  seeks, closes, faults,
  seekPending,         \* a resetForSeek() returned and no key chunk was submitted since
  seekMark,            \* this.#timestamp when resetForSeek() last returned
  seekCall,            \* nCalls when resetForSeek() last returned (CallCap: never)
  overlap3,            \* three decode() calls have been unfinished at once
  awaitingAtCall,      \* per call: the calls awaiting their engine completion when it was made
  callerTs,            \* per call: its timestampMicros argument (0: not called)
  closeMark,           \* this.#timestamp when close() last returned
  closeCall            \* nCalls when close() last returned (CallCap: never)

vars == <<probe, stream, geometry, engineConfig, decoderState, engineGen, engineQueue,
          keyRequired, naluStreamInfo,
          videoDecoderConfig, hasKeyframe, decoding, pendingFrame, timestamp, nCalls,
          pc, chunkOf, awaits, promise, result, diag, microtasks, listeners, timers,
          closedCount, outputs, submissions, seeks, closes, faults, seekPending,
          seekMark, seekCall, overlap3, awaitingAtCall, callerTs, closeMark, closeCall>>

Range(s) == {s[i] : i \in DOMAIN s}

RECURSIVE SortedSeq(_)
SortedSeq(S) ==
  IF S = {} THEN <<>>
  ELSE LET m == CHOOSE x \in S : \A y \in S : x <= y
       IN <<m>> \o SortedSeq(S \ {m})

Active == {c \in Calls : pc[c] \in {"waitPrev", "awaitOwn"}}

\* new VideoDecoder(...) in the constructor; every field at its initializer
\* lines 255-274: the fields of a new H264Decoder
InitDecoder ==
  /\ decoderState = "unconfigured"
  /\ engineGen = 1
  /\ engineQueue = <<>>
  /\ keyRequired = TRUE
  /\ engineConfig = 0
  /\ naluStreamInfo = "none"
  /\ videoDecoderConfig = 0
  /\ hasKeyframe = FALSE
  /\ decoding = 0
  /\ pendingFrame = 0
  /\ timestamp = 0
  /\ nCalls = 0
  /\ pc = [c \in Calls |-> "new"]
  /\ chunkOf = [c \in Calls |-> NoChunk]
  /\ awaits = [c \in Calls |-> 0]
  /\ promise = [c \in Calls |-> "none"]
  /\ result = [c \in Calls |-> -1]
  /\ diag = [c \in Calls |-> {}]
  /\ microtasks = <<>>
  /\ listeners = <<>>
  /\ timers = <<>>
  /\ closedCount = [f \in Frames |-> 0]
  /\ outputs = {}
  /\ submissions = <<>>
  /\ seeks = 0
  /\ closes = 0
  /\ faults = 0
  /\ seekPending = FALSE
  /\ seekMark = 0
  /\ seekCall = CallCap
  /\ overlap3 = FALSE
  /\ awaitingAtCall = [c \in Calls |-> {}]
  /\ callerTs = [c \in Calls |-> 0]
  /\ closeMark = 0
  /\ closeCall = CallCap

Init ==
  /\ stream \in {"annexB", "packet"}
  /\ geometry \in {1, 2}
  /\ probe = NoProbe
  /\ InitDecoder

\* ------------------------------------------------------ decode(), pieces
\* faulty variant: the call never waits for the promise in #decoding
MustAwaitNever(d) == FALSE

\* lines 287-289: a call waits when #decoding holds a promise
MustAwait(d) == d # 0

\* faulty variant: a closed engine is left as it is
MustReacquireNever(st) == FALSE

\* line 291: a call that finds the engine closed creates a new one
MustReacquire(st) == st = "closed"

\* faulty variant: the internal timestamp is not advanced
NextTimestampStuck(t) == t

\* line 359: this.#timestamp++ leaves the next internal timestamp
NextTimestamp(t) == t + 1

\* faulty variant: the chunk carries the caller's timestamp
SubmissionTimestampCaller(internal, micros) == micros

\* line 359: the timestamp of the EncodedVideoChunk, given this.#timestamp
\* and the caller's timestampMicros
SubmissionTimestamp(internal, micros) == internal

\* faulty variant: the engine state is not looked at before the submission
EngineReadyAlways(st) == TRUE

\* line 318: the call goes on only with the engine configured
EngineReady(st) == st = "configured"

\* line 323: the type the chunk is submitted with
ChunkType(nalus) == IF isKeyFrame(nalus) THEN "key" ELSE "delta"

\* faulty variant: the gate opens on any chunk
KeyframeGateAnyChunk(seen, type) == [pass |-> TRUE, seen |-> TRUE]

\* lines 323-331: the keyframe gate; pass says whether the call goes on to
\* submit, seen is #hasKeyframe afterwards
KeyframeGate(seen, type) ==
  IF ~seen
  THEN IF type = "key" THEN [pass |-> TRUE, seen |-> TRUE]
                       ELSE [pass |-> FALSE, seen |-> FALSE]
  ELSE [pass |-> TRUE, seen |-> seen]

\* lines 341-352: one "frame" listener handling videoFrame f
FrameListener(slot, closed, f) ==
  [slot |-> f,
   closed |-> IF slot # 0 THEN [closed EXCEPT ![slot] = @ + 1] ELSE closed]

\* emit("frame", f): every registered listener runs, in registration order
RECURSIVE EmitFrame(_, _, _, _)
EmitFrame(ls, slot, closed, f) ==
  IF ls = <<>> THEN [slot |-> slot, closed |-> closed]
  ELSE LET r == FrameListener(slot, closed, f)
       IN EmitFrame(Tail(ls), r.slot, r.closed, f)

\* lines 334-340: what the timeout handler leaves of the engine's work and of
\* the registered listeners (it only resolves the promise)
TimeoutLeaves(queue, ls, c) == [queue |-> queue, listeners |-> ls]

\* faulty variant: the slot is not cleared when its frame is returned
TakePendingKeep(slot) == [frame |-> slot, slot |-> slot]

\* lines 376-378: the frame returned and the slot afterwards
TakePending(slot) == [frame |-> slot, slot |-> 0]

\* faulty variant: a resolution wakes only the call that made the promise
WaitersOwnOnly(c) == IF pc[c] = "awaitOwn" THEN <<c>> ELSE <<>>

\* the continuations a resolution of call c's promise queues: c itself (line
\* 373), then the calls that found it in #decoding (line 288), in call order
Waiters(c) ==
  (IF pc[c] = "awaitOwn" THEN <<c>> ELSE <<>>)
    \o SortedSeq({b \in Calls : pc[b] = "waitPrev" /\ awaits[b] = c})

RECURSIVE WaitersOfAll(_)
WaitersOfAll(cs) ==
  IF cs = <<>> THEN <<>> ELSE Waiters(Head(cs)) \o WaitersOfAll(Tail(cs))

\* lines 291-373: decode() from the closed check to its await, for call c
\* with chunk ch and caller timestamp micros.  Everything here runs in one
\* synchronous stretch.  A conversion (line 300) or a configure() (line 314)
\* that throws ends the call there: the promise decode() returned is rejected
\* ("throw:convert", "throw:configure").
Body(c, ch, micros) ==
  LET recreate == MustReacquire(decoderState)
      st0 == IF recreate THEN "unconfigured" ELSE decoderState
      info == getNaluStreamInfo(naluStreamInfo, ch)
      frame == getAnnexBFrame(info, ch)
      tryConfig == frame.ok /\ st0 = "unconfigured"
      cfg == IF tryConfig
             THEN getDecoderConfig(videoDecoderConfig, frame.nalus, ch.sps)
             ELSE [config |-> 0, cache |-> videoDecoderConfig, err |-> FALSE]
      wantConfigure == tryConfig /\ cfg.config # 0
      rejected == wantConfigure /\ ~EngineConfigures(cfg.config)
      configure == wantConfigure /\ ~rejected
      st1 == IF configure THEN "configured" ELSE st0
      keyReq == IF recreate \/ configure THEN TRUE ELSE keyRequired
      ready == frame.ok /\ ~rejected /\ EngineReady(st1)
      type == ChunkType(frame.nalus)
      gate == KeyframeGate(hasKeyframe, type)
      submit == ready /\ gate.pass
      accepted == EngineAccepts(keyReq, type)
      queue0 == IF recreate THEN <<>> ELSE engineQueue
      events ==
        (IF recreate THEN {"warn:closed"} ELSE {})
        \cup (IF naluStreamInfo = "none" /\ info # "none"
              THEN {"debug:identified"} ELSE {})
        \cup (IF frame.threw THEN {"throw:convert"} ELSE {})
        \cup (IF ~frame.ok /\ ~frame.threw
              THEN {"error:identify", "error:annexb"} ELSE {})
        \cup (IF cfg.err THEN {"error:sps"} ELSE {})
        \cup (IF wantConfigure THEN {"debug:configure"} ELSE {})
        \cup (IF rejected THEN {"throw:configure"} ELSE {})
        \cup (IF frame.ok /\ ~rejected /\ ~ready THEN {"warn:state"} ELSE {})
        \cup (IF ready /\ ~gate.pass THEN {"debug:skip"} ELSE {})
        \cup (IF submit /\ ~accepted THEN {"error:decode"} ELSE {})
  IN
  /\ decoderState' = st1
  /\ engineGen' = IF recreate THEN engineGen + 1 ELSE engineGen
  /\ engineConfig' = IF configure THEN cfg.config
                     ELSE IF recreate THEN 0 ELSE engineConfig
  /\ naluStreamInfo' = info
  /\ videoDecoderConfig' = cfg.cache
  /\ hasKeyframe' = IF ready THEN gate.seen ELSE hasKeyframe
  /\ diag' = [diag EXCEPT ![c] = @ \cup events]
  /\ IF submit
     THEN /\ decoding' = c
          /\ promise' = [promise EXCEPT ![c] = "pending"]
          /\ awaits' = [awaits EXCEPT ![c] = c]
          /\ pc' = [pc EXCEPT ![c] = "awaitOwn"]
          /\ timers' = Append(timers, c)
          /\ listeners' = Append(listeners, c)
          /\ timestamp' = NextTimestamp(timestamp)
          /\ submissions' = Append(submissions,
               [call |-> c, type |-> type, ts |-> SubmissionTimestamp(timestamp, micros),
                gen |-> engineGen', accepted |-> accepted, needKey |-> seekPending])
          /\ engineQueue' = IF accepted THEN Append(queue0, timestamp + 1) ELSE queue0
          /\ keyRequired' = IF accepted THEN FALSE ELSE keyReq
          /\ seekPending' = (seekPending /\ type # "key")
          /\ UNCHANGED result
     ELSE /\ pc' = [pc EXCEPT ![c] = "done"]
          /\ result' = [result EXCEPT ![c] = 0]
          /\ awaits' = [awaits EXCEPT ![c] = 0]
          /\ engineQueue' = queue0
          /\ keyRequired' = keyReq
          /\ UNCHANGED <<decoding, promise, timers, listeners, timestamp, submissions,
                         seekPending>>
  /\ UNCHANGED <<pendingFrame, closedCount, outputs>>

\* lines 373-378: the continuation of `await this.#decoding` of call c
Finish(c) ==
  LET t == TakePending(pendingFrame)
  IN /\ decoding' = 0
     /\ result' = [result EXCEPT ![c] = t.frame]
     /\ pendingFrame' = t.slot
     /\ pc' = [pc EXCEPT ![c] = "done"]
     /\ awaits' = [awaits EXCEPT ![c] = 0]
     /\ UNCHANGED <<decoderState, engineGen, engineQueue, keyRequired, engineConfig, naluStreamInfo,
                    videoDecoderConfig, hasKeyframe, timestamp, promise, diag, listeners,
                    timers, closedCount, outputs, submissions, seekPending>>

\* ------------------------------------------------------------- actions
\* a caller calls decode(ch, micros), as call nCalls + 1: lines 286-289, and on
\* to line 373 when #decoding is unset
DecodeStep(ch, micros) ==
  LET c == nCalls + 1 IN
  /\ nCalls' = c
  /\ chunkOf' = [chunkOf EXCEPT ![c] = ch]
  /\ overlap3' = (overlap3 \/ Cardinality(Active) >= 2)
  /\ awaitingAtCall' = [awaitingAtCall EXCEPT
       ![c] = {a \in Calls : pc[a] = "awaitOwn" /\ promise[a] = "pending"}]
  /\ IF MustAwait(decoding)
     THEN /\ pc' = [pc EXCEPT ![c] = "waitPrev"]
          /\ awaits' = [awaits EXCEPT ![c] = decoding]
          /\ microtasks' = IF promise[decoding] = "pending" THEN <<>> ELSE <<c>>
          /\ UNCHANGED <<decoderState, engineGen, engineQueue, keyRequired, engineConfig,
                         naluStreamInfo, videoDecoderConfig, hasKeyframe, decoding,
                         pendingFrame, timestamp, promise, result, diag, listeners,
                         timers, closedCount, outputs, submissions, seekPending>>
     ELSE /\ Body(c, ch, micros)
          /\ UNCHANGED microtasks
  /\ UNCHANGED <<probe, stream, geometry, seeks, closes, faults, seekMark, seekCall,
                 closeMark, closeCall>>

DecodeCall(ch, micros, max) ==
  /\ microtasks = <<>>
  /\ nCalls < max
  /\ callerTs' = [callerTs EXCEPT ![nCalls + 1] = micros]
  /\ DecodeStep(ch, micros)

Decode ==
  \E ch \in (IF geometry = 1 THEN ChunksOf(stream) ELSE VoidChunksOf(stream)) :
    DecodeCall(ch, SomeTimestamp, MaxCalls)

DecodeStream ==
  \E ch \in StreamChunksOf(stream) : DecodeCall(ch, SomeTimestamp, MaxStreamCalls)

DecodeTs ==
  \E ch \in StreamChunksOf(stream), micros \in CallerTimestamps :
    DecodeCall(ch, micros, MaxTsCalls)

\* the continuation of a call waiting at line 288 runs; micros is the
\* timestampMicros its closure holds
ResumeStep(micros) ==
  /\ microtasks # <<>>
  /\ pc[Head(microtasks)] = "waitPrev"
  /\ microtasks' = Tail(microtasks)
  /\ Body(Head(microtasks), chunkOf[Head(microtasks)], micros)
  /\ UNCHANGED <<probe, stream, geometry,
                 nCalls, chunkOf, seeks, closes, faults, seekMark, seekCall,
                 overlap3, awaitingAtCall, closeMark, closeCall>>

\* the next continuation on the microtask queue runs
Resume ==
  /\ microtasks # <<>>
  /\ ResumeStep(callerTs[Head(microtasks)])
  /\ UNCHANGED callerTs

Return ==
  /\ microtasks # <<>>
  /\ pc[Head(microtasks)] = "awaitOwn"
  /\ microtasks' = Tail(microtasks)
  /\ Finish(Head(microtasks))
  /\ UNCHANGED <<probe, stream, geometry,
                 nCalls, chunkOf, seeks, closes, faults, seekMark, seekCall,
                 overlap3, awaitingAtCall, callerTs, closeMark, closeCall>>

\* lines 334-340: the 30 ms timer of the oldest armed call fires
Timeout ==
  /\ microtasks = <<>>
  /\ timers # <<>>
  /\ LET c == Head(timers)
         left == TimeoutLeaves(engineQueue, listeners, c)
     IN /\ timers' = Tail(timers)
        /\ promise' = [promise EXCEPT ![c] = IF @ = "pending" THEN "timeout" ELSE @]
        /\ microtasks' = IF promise[c] = "pending" THEN Waiters(c) ELSE <<>>
        /\ diag' = [diag EXCEPT ![c] = @ \cup {"warn:timeout"}]
        /\ engineQueue' = left.queue
        /\ listeners' = left.listeners
  /\ UNCHANGED <<probe, stream, geometry, engineConfig, decoderState, engineGen, keyRequired,
                 naluStreamInfo,
                 videoDecoderConfig, hasKeyframe, decoding, pendingFrame, timestamp,
                 nCalls, pc, chunkOf, awaits, result, closedCount, outputs, submissions,
                 seeks, closes, faults, seekPending, seekMark, seekCall, overlap3,
                 awaitingAtCall, callerTs, closeMark, closeCall>>

\* lines 270-273, 341-352: the engine outputs a frame, its oldest or (having
\* finished older work without a frame) a later one; the output callback
\* emits "frame"
EngineOutput ==
  /\ microtasks = <<>>
  /\ \E i \in DOMAIN engineQueue :
       LET f == engineQueue[i]
           r == EmitFrame(listeners, pendingFrame, closedCount, f)
           heard == Range(listeners)
           resolved == SelectSeq(listeners, LAMBDA c : promise[c] = "pending")
       IN /\ engineQueue' = SubSeq(engineQueue, i + 1, Len(engineQueue))
          /\ outputs' = outputs \cup {f}
          /\ pendingFrame' = r.slot
          /\ closedCount' = r.closed
          /\ listeners' = <<>>
          /\ timers' = SelectSeq(timers, LAMBDA c : c \notin heard)
          /\ promise' = [c \in Calls |->
               IF c \in heard /\ promise[c] = "pending" THEN "frame" ELSE promise[c]]
          /\ diag' = [c \in Calls |->
               IF c \in heard THEN diag[c] \cup {"debug:decoded"} ELSE diag[c]]
          /\ microtasks' = WaitersOfAll(resolved)
  /\ UNCHANGED <<probe, stream, geometry, engineConfig, decoderState, engineGen, keyRequired,
                 naluStreamInfo,
                 videoDecoderConfig, hasKeyframe, decoding, timestamp, nCalls, pc,
                 chunkOf, awaits, result, submissions, seeks, closes, faults,
                 seekPending, seekMark, seekCall, overlap3, awaitingAtCall, callerTs,
                 closeMark, closeCall>>

\* lines 270-271: the engine reports an error; WebCodecs closes the decoder
EngineError ==
  /\ microtasks = <<>>
  /\ decoderState = "configured"
  /\ faults < MaxFaults
  /\ faults' = faults + 1
  /\ decoderState' = "closed"
  /\ engineQueue' = <<>>
  /\ engineConfig' = 0
  /\ UNCHANGED <<probe, stream, geometry,
                 engineGen, keyRequired, naluStreamInfo, videoDecoderConfig,
                 hasKeyframe, decoding, pendingFrame, timestamp, nCalls, pc, chunkOf,
                 awaits, promise, result, diag, microtasks, listeners, timers,
                 closedCount, outputs, submissions, seeks, closes, seekPending,
                 seekMark, seekCall, overlap3, awaitingAtCall, callerTs,
                 closeMark, closeCall>>

\* faulty variant: the seek clears the keyframe gate
HasKeyframeCleared(seen) == FALSE

\* lines 386-388: #hasKeyframe when resetForSeek() returns (it is not assigned)
HasKeyframeAfterReset(seen) == seen

\* faulty variant: the seek forgets the cached configuration
CachesClearedByReset(info, config) == [info |-> info, config |-> 0]

\* lines 386-388: #naluStreamInfo and #videoDecoderConfig when resetForSeek()
\* returns (neither is assigned)
CachesAfterReset(info, config) == [info |-> info, config |-> config]

\* lines 386-388: resetForSeek(); reset() of a closed VideoDecoder throws
ResetForSeek ==
  /\ microtasks = <<>>
  /\ seeks + closes < MaxControl
  /\ seeks' = seeks + 1
  /\ IF decoderState = "closed"
     THEN UNCHANGED <<decoderState, engineQueue, keyRequired, seekPending, seekMark,
                      seekCall, hasKeyframe, engineConfig, naluStreamInfo,
                      videoDecoderConfig>>
     ELSE /\ decoderState' \in EngineStatesAfterReset(decoderState)
          /\ engineConfig' = IF decoderState' = "configured" THEN engineConfig ELSE 0
          /\ naluStreamInfo' = CachesAfterReset(naluStreamInfo, videoDecoderConfig).info
          /\ videoDecoderConfig' = CachesAfterReset(naluStreamInfo, videoDecoderConfig).config
          /\ hasKeyframe' = HasKeyframeAfterReset(hasKeyframe)
          /\ engineQueue' = <<>>
          /\ keyRequired' = TRUE
          /\ seekPending' = TRUE
          /\ seekMark' = timestamp
          /\ seekCall' = nCalls
  /\ UNCHANGED <<probe, stream, geometry, engineGen,
                 decoding, pendingFrame, timestamp, nCalls, pc, chunkOf, awaits, promise,
                 result, diag, microtasks, listeners, timers, closedCount, outputs,
                 submissions, closes, faults, overlap3, awaitingAtCall, callerTs,
                 closeMark, closeCall>>

\* lines 394-398: close(); close() of a closed VideoDecoder throws before the
\* caches are cleared
Close ==
  /\ microtasks = <<>>
  /\ seeks + closes < MaxControl
  /\ closes' = closes + 1
  /\ IF decoderState = "closed"
     THEN UNCHANGED <<decoderState, engineQueue, naluStreamInfo, videoDecoderConfig,
                      closeMark, closeCall, engineConfig>>
     ELSE /\ decoderState' = "closed"
          /\ engineConfig' = 0
          /\ engineQueue' = <<>>
          /\ naluStreamInfo' = "none"
          /\ videoDecoderConfig' = 0
          /\ closeMark' = timestamp
          /\ closeCall' = nCalls
  /\ UNCHANGED <<probe, stream, geometry,
                 engineGen, keyRequired, hasKeyframe, decoding, pendingFrame,
                 timestamp, nCalls, pc, chunkOf, awaits, promise, result, diag,
                 microtasks, listeners, timers, closedCount, outputs, submissions, seeks,
                 faults, seekPending, seekMark, seekCall, overlap3, awaitingAtCall,
                 callerTs>>

Next ==
  \/ Decode
  \/ Resume
  \/ Return
  \/ Timeout
  \/ EngineOutput
  \/ EngineError
  \/ ResetForSeek
  \/ Close

Spec == Init /\ [][Next]_vars

\* the same program with a scheduler: a timer that is armed fires (30 ms
\* after setTimeout) and the event loop runs every queued continuation
Fairness == WF_vars(Timeout) /\ WF_vars(Resume) /\ WF_vars(Return)

DecodeLive ==
  \E ch \in StreamChunksOf(stream) : DecodeCall(ch, SomeTimestamp, MaxLiveCalls)

NextLive ==
  \/ DecodeLive
  \/ Resume
  \/ Return
  \/ Timeout
  \/ EngineOutput
  \/ EngineError
  \/ ResetForSeek
  \/ Close

InitLive == Init /\ stream = "annexB" /\ geometry = 1

SpecLive == InitLive /\ [][NextLive]_vars /\ Fairness

\* the caller feeds key and delta chunks only and neither seeks nor closes
NextStream ==
  \/ DecodeStream
  \/ Resume
  \/ Return
  \/ Timeout
  \/ EngineOutput

\* a stream whose SPS the engine takes
InitUsable == Init /\ geometry = 1

SpecStream == InitUsable /\ [][NextStream]_vars

\* the caller feeds key and delta chunks with timestamps of its choice
NextTs ==
  \/ DecodeTs
  \/ Resume
  \/ Return
  \/ Timeout
  \/ EngineOutput
  \/ EngineError
  \/ ResetForSeek
  \/ Close

SpecTs == InitUsable /\ [][NextTs]_vars

\* the chunks of a stream that starts with two delta chunks before its first
\* key chunk; delta chunks follow
GateSequence(s) == <<ChunkDelta(s), ChunkDelta(s), ChunkKey(s), ChunkDelta(s)>>

SeqChunk(n, s) == IF n <= Len(GateSequence(s)) THEN GateSequence(s)[n] ELSE ChunkDelta(s)

\* the caller awaits each call before it makes the next one
DecodeSeq ==
  /\ \A c \in Calls : pc[c] \in {"new", "done"}
  /\ DecodeCall(SeqChunk(nCalls + 1, stream), SomeTimestamp, MaxSeqCalls)

NextSeq ==
  \/ DecodeSeq
  \/ Return
  \/ Timeout
  \/ EngineOutput

SpecSeq == InitUsable /\ [][NextSeq]_vars

\* header bytes that differ in the forbidden bit, in nal_ref_idc and in the
\* type: IDR slices (5, 37, 69, 101, 133), other types (1, 7) and bytes that
\* hold the value 5 elsewhere than in their low five bits (40, 160)
HeaderBytes == {1, 5, 7, 37, 40, 69, 101, 133, 160}

HeaderSeqs == UNION {[1..n -> HeaderBytes] : n \in 1..MaxUnits}

\* a chunk of units with the header bytes hs, none of them a parsable SPS
UnitChunk(s, hs) == [stream |-> s, nalus |-> hs, sps |-> [i \in DOMAIN hs |-> 0]]

\* the caller feeds a key chunk, awaits it, and feeds one chunk of any units
DecodeUnits ==
  /\ \A c \in Calls : pc[c] \in {"new", "done"}
  /\ \/ nCalls = 0 /\ DecodeCall(ChunkKey(stream), SomeTimestamp, CallCap)
     \/ /\ nCalls = 1
        /\ \E hs \in HeaderSeqs : DecodeCall(UnitChunk(stream, hs), SomeTimestamp, CallCap)

NextUnits ==
  \/ DecodeUnits
  \/ Return
  \/ Timeout
  \/ EngineOutput

SpecUnits == InitUsable /\ [][NextUnits]_vars

\* ---------------------------------------------------- buffers of bytes
\* The byte-level functions applied to buffers built from lists of NAL units.

ByteSet == {0, 1}
Payloads == UNION {[1..n -> ByteSet] : n \in 0..MaxUnitLen}
UnitLists == UNION {[1..n -> Payloads] : n \in 1..MaxUnits}
Forms == {[type |-> "annexB", boxSize |-> 4], [type |-> "packet", boxSize |-> 4],
          [type |-> "packet", boxSize |-> 2]}

\* the w-byte big-endian representation of n
RECURSIVE BigEndian(_, _)
BigEndian(n, w) == IF w = 0 THEN <<>> ELSE BigEndian(n \div 256, w - 1) \o <<n % 256>>

\* the units, each behind its w-byte length
RECURSIVE BuildLengthPrefixed(_, _)
BuildLengthPrefixed(units, w) ==
  IF units = <<>> THEN <<>>
  ELSE BigEndian(Len(Head(units)), w) \o Head(units)
         \o BuildLengthPrefixed(Tail(units), w)

\* the units, each behind the marker 00 00 00 01
RECURSIVE BuildAnnexB(_)
BuildAnnexB(units) ==
  IF units = <<>> THEN <<>> ELSE StartCode \o Head(units) \o BuildAnnexB(Tail(units))

Build(units, form) ==
  IF form.type = "packet" THEN BuildLengthPrefixed(units, form.boxSize)
  ELSE BuildAnnexB(units)

Reverse(seq) == [i \in DOMAIN seq |-> seq[Len(seq) + 1 - i]]

InitBytes ==
  /\ stream = "annexB"
  /\ geometry = 1
  /\ InitDecoder
  /\ probe \in {[stage |-> "built", units |-> us, form |-> f,
                  data |-> Build(us, f)] : us \in UnitLists, f \in Forms}

Idle ==
  UNCHANGED <<stream, geometry, engineConfig, decoderState, engineGen, engineQueue,
              keyRequired, naluStreamInfo, videoDecoderConfig, hasKeyframe, decoding,
              pendingFrame, timestamp, nCalls, pc, chunkOf, awaits, promise, result,
              diag, microtasks, listeners, timers, closedCount, outputs, submissions,
              seeks, closes, faults, seekPending, seekMark, seekCall, overlap3,
              awaitingAtCall, callerTs, closeMark, closeCall>>

\* the first buffer of a stream is classified and iterated
Identify ==
  /\ probe.stage = "built"
  /\ LET kind == Classify(probe.data) IN
     probe' = [stage |-> "identified", units |-> probe.units, form |-> probe.form,
               data |-> probe.data,
               kind |-> kind,
               nalus |-> Iterate(probe.data, kind),
               info |-> getNaluStreamInfoBytes(NoInfo, probe.data)]
  /\ Idle

\* the first buffer is normalized: frame with the cached descriptor, converted
\* with the descriptor the buffer was built with
Normalize ==
  /\ probe.stage = "identified"
  /\ probe' = [stage |-> "normalized", units |-> probe.units, form |-> probe.form,
               data |-> probe.data,
               info |-> getNaluStreamInfoBytes(probe.info, probe.data),
               frame |-> getAnnexBFrameBytes(probe.info, probe.data),
               converted |-> getAnnexBFrameBytes(probe.form, probe.data)]
  /\ Idle

\* a later buffer of the stream, with the units in the opposite order, is
\* normalized with the cached descriptor
NormalizeNext ==
  /\ probe.stage = "normalized"
  /\ LET next == Build(Reverse(probe.units), probe.form)
         info == getNaluStreamInfoBytes(probe.info, next)
     IN probe' = [stage |-> "next", units |-> Reverse(probe.units), form |-> probe.form,
                  data |-> next, info |-> info,
                  frame |-> getAnnexBFrameBytes(info, next)]
  /\ Idle

NextBytes ==
  \/ Identify
  \/ Normalize
  \/ NormalizeNext

SpecBytes == InitBytes /\ [][NextBytes]_vars

\* ------------------------------------------------------ readers of bits
\* A bit reader over a 4-byte pattern, positioned and read from. The patterns
\* start with a 0 bit, so that every value read is below 2^31.

BitPatterns == {<<103, 66, 0, 30>>, <<90, 165, 255, 1>>}
ReadSizes == 0..WordBits
SeekOffsets == {0, 3, 8, 29, WordBits + 1}

InitBits ==
  /\ stream = "annexB"
  /\ geometry = 1
  /\ InitDecoder
  /\ probe \in {[stage |-> "reader", bytes |-> b, pos |-> 0, reads |-> <<>>, err |-> "none"] :
                  b \in BitPatterns}

\* seek(bitOffset) on a reader not yet read from
Seek ==
  /\ probe.stage = "reader"
  /\ \E p \in SeekOffsets :
       LET r == seek(probe.bytes, p) IN
       probe' = [probe EXCEPT !.stage = "reading",
                              !.pos = IF r.ok THEN r.pos ELSE @,
                              !.err = r.err]
  /\ Idle

\* readUnsigned(n)
Read ==
  /\ probe.stage \in {"reader", "reading"}
  /\ Len(probe.reads) < MaxReads
  /\ \E n \in ReadSizes :
       LET r == readUnsigned(probe.bytes, probe.pos, n) IN
       probe' = [probe EXCEPT
                   !.stage = "reading",
                   !.pos = r.pos,
                   !.err = r.err,
                   !.reads = Append(@, [n |-> n, at |-> probe.pos, ok |-> r.ok,
                                        value |-> r.value])]
  /\ Idle

NextBits ==
  \/ Seek
  \/ Read

SpecBits == InitBits /\ [][NextBits]_vars

\* ------------------------------------------------- Exp-Golomb readers
\* A bit reader over two bytes, positioned anywhere and read from with
\* readExpGolomb().

GolombBytes == {0, 1, 5, 64, 160, 255}
GolombPatterns == [1..2 -> GolombBytes]

InitGolomb ==
  /\ stream = "annexB"
  /\ geometry = 1
  /\ InitDecoder
  /\ probe \in {[stage |-> "golomb", bytes |-> b, pos |-> 0, reads |-> <<>>, err |-> "none"] :
                  b \in GolombPatterns}

\* seek(bitOffset) on a reader not yet read from
SeekGolomb ==
  /\ probe.stage = "golomb"
  /\ probe.reads = <<>>
  /\ \E p \in 1..(8 * Len(probe.bytes)) :
       probe' = [probe EXCEPT !.pos = seek(probe.bytes, p).pos]
  /\ probe' # probe
  /\ Idle

\* readExpGolomb()
ReadGolomb ==
  /\ probe.stage = "golomb"
  /\ Len(probe.reads) < MaxReads
  /\ LET r == readExpGolomb(probe.bytes, probe.pos) IN
     probe' = [probe EXCEPT
                 !.pos = r.pos,
                 !.err = r.err,
                 !.reads = Append(@, [at |-> probe.pos, ok |-> r.ok, value |-> r.value,
                                      next |-> r.pos])]
  /\ Idle

NextGolomb ==
  \/ SeekGolomb
  \/ ReadGolomb

SpecGolomb == InitGolomb /\ [][NextGolomb]_vars

\* ------------------------------------------------------- SPS NAL units
\* SPS units written from their field values, parsed and turned into a
\* decoder configuration.

\* the n-bit representation of v, most significant bit first
Bits(v, n) == [i \in 1..n |-> (v \div 2^(n - i)) % 2]

\* the number of bits of n after its leading 1
RECURSIVE BitsAfterLeading(_)
BitsAfterLeading(n) == IF n <= 1 THEN 0 ELSE 1 + BitsAfterLeading(n \div 2)

\* the code word ue(v)
UeBits(v) ==
  [i \in 1..BitsAfterLeading(v + 1) |-> 0] \o Bits(v + 1, BitsAfterLeading(v + 1) + 1)

\* the bits, closed by a 1 bit and zeros up to the next byte, as bytes
PackBytes(bits) ==
  LET padded == bits \o <<1>> \o [i \in 1..((8 - ((Len(bits) + 1) % 8)) % 8) |-> 0]
      at(i) == 8 * (i - 1)
  IN [i \in 1..(Len(padded) \div 8) |->
        padded[at(i) + 1] * 128 + padded[at(i) + 2] * 64 + padded[at(i) + 3] * 32
          + padded[at(i) + 4] * 16 + padded[at(i) + 5] * 8 + padded[at(i) + 6] * 4
          + padded[at(i) + 7] * 2 + padded[at(i) + 8]]

\* the SPS NAL unit with the fields f
BuildSps(f) ==
  PackBytes(
    Bits(NaluTypeSPS + 96, 8) \o Bits(f.profile, 8) \o Bits(0, 8) \o Bits(f.level, 8)
      \o UeBits(0)
      \o (IF f.profile \in HighProfiles
          THEN UeBits(1) \o UeBits(0) \o UeBits(0) \o <<0, 0>> ELSE <<>>)
      \o UeBits(0)
      \o UeBits(f.pocType) \o (IF f.pocType = 0 THEN UeBits(0) ELSE <<>>)
      \o UeBits(1) \o <<0>>
      \o UeBits(f.widthInMbs) \o UeBits(f.heightInMapUnits)
      \o (IF f.frameMbsOnly = 1 THEN <<1>> ELSE <<0, 0>>)
      \o <<1>>
      \o (IF f.crop = <<0, 0, 0, 0>> THEN <<0>>
          ELSE <<1>> \o UeBits(f.crop[1]) \o UeBits(f.crop[2]) \o UeBits(f.crop[3])
                 \o UeBits(f.crop[4]))
      \o <<0>>)

SpsFields ==
  [profile : {66, 100}, level : {30}, pocType : {0, 2}, widthInMbs : {0, 19, 119},
   heightInMapUnits : {14, 33, 67}, frameMbsOnly : {0, 1},
   crop : {<<0, 0, 0, 0>>, <<0, 0, 0, 4>>}]

InitSps ==
  /\ stream = "annexB"
  /\ geometry = 1
  /\ InitDecoder
  /\ probe \in {[stage |-> "sps", fields |-> f, nalu |-> BuildSps(f)] : f \in SpsFields}

\* new SPS(nalu.nalu)
ParseUnit ==
  /\ probe.stage = "sps"
  /\ probe' = [stage |-> "parsed", fields |-> probe.fields, nalu |-> probe.nalu,
               sps |-> ParseSps(probe.nalu)]
  /\ Idle

\* lines 459-468: the configuration is made from the SPS
MakeConfig ==
  /\ probe.stage = "parsed"
  /\ probe' = [stage |-> "config", fields |-> probe.fields, nalu |-> probe.nalu,
               sps |-> probe.sps, config |-> SpsDecoderConfig(probe.nalu)]
  /\ Idle

NextSps ==
  \/ ParseUnit
  \/ MakeConfig

SpecSps == InitSps /\ [][NextSps]_vars

\* ------------------------------------------------------------- claims
\* the call whose submission frame f is decoded from (timestamps count the
\* submissions, so frame f belongs to the f-th submission)
CallOfFrame(f) == submissions[f].call
OwnFrame(c) == CHOOSE f \in Frames : f <= Len(submissions) /\ submissions[f].call = c
Submitted(c) == \E i \in DOMAIN submissions : submissions[i].call = c
IsDelta(ch) == ~isKeyFrame(ch.nalus)
\* call c runs lines 291-373 in this step
BodyRuns(c) == pc[c] \in {"new", "waitPrev"} /\ pc'[c] \in {"awaitOwn", "done"}
\* the engine outputs frame f in this step
Delivered(f) == f \notin outputs /\ f \in outputs'

\* C1: with two overlapping calls (never three unfinished at once), a call B
\* made while call A awaits its engine completion is not submitted before A's
\* promise was resolved by a frame or by A's timeout.
C1_SecondCallWaits ==
  \A a, b \in Calls :
    (~overlap3 /\ a \in awaitingAtCall[b] /\ Submitted(b))
      => promise[a] \in {"frame", "timeout"}

C1_Witness ==
  \E a, b \in Calls :
    /\ ~overlap3 /\ a \in awaitingAtCall[b] /\ Submitted(b)
    /\ promise[a] = "timeout" /\ promise[b] = "pending"

\* C2: at every instant at most one engine submission is outstanding
\* (accepted by the engine, its call neither completed by a frame nor timed
\* out).
Outstanding ==
  {c \in Calls : promise[c] = "pending"
     /\ \E i \in DOMAIN submissions : submissions[i].call = c /\ submissions[i].accepted}

C2_SingleFlight == Cardinality(Outstanding) <= 1

\* C3: chunks are submitted in the order their decode() calls were made.
C3_CallOrder ==
  \A i, j \in DOMAIN submissions : i < j => submissions[i].call < submissions[j].call

\* C4: while #hasKeyframe is false a call with a delta chunk returns no frame
\* and submits nothing; #hasKeyframe turns true only in a call whose chunk is
\* a key chunk with the engine configured, and that call submits its chunk.
C4_KeyframeGate ==
  [][ /\ \A c \in Calls :
           (BodyRuns(c) /\ ~hasKeyframe /\ IsDelta(chunkOf'[c]))
             => (result'[c] = 0 /\ submissions' = submissions /\ ~hasKeyframe')
      /\ (~hasKeyframe /\ hasKeyframe')
           => \E c \in Calls :
                /\ BodyRuns(c) /\ ~IsDelta(chunkOf'[c])
                /\ decoderState' = "configured"
                /\ submissions' = Append(submissions, submissions'[Len(submissions')])
                /\ submissions'[Len(submissions')].call = c
                /\ submissions'[Len(submissions')].type = "key" ]_vars

C4_Witness ==
  /\ hasKeyframe
  /\ \E c, k \in Calls :
       /\ c < k /\ pc[c] = "done" /\ IsDelta(chunkOf[c]) /\ "debug:skip" \in diag[c]
       /\ result[c] = 0 /\ ~Submitted(c)
       /\ Submitted(k) /\ ~IsDelta(chunkOf[k])

\* C5: after resetForSeek() a call with a delta chunk is not submitted to the
\* engine until a key chunk has been submitted.
C5_NoDeltaAfterSeek ==
  \A i \in DOMAIN submissions : ~(submissions[i].needKey /\ submissions[i].type = "delta")

\* C6: when decode() returns a frame the pending slot is empty; afterwards
\* the orchestrator does not release that frame, and no other call returns it.
Returned(f) == \E c \in Calls : result[c] = f

C6_OwnershipTransfer ==
  [][ /\ \A c \in Calls : (result'[c] # result[c] /\ result'[c] > 0) => pendingFrame' = 0
      /\ \A f \in Frames : Returned(f) => closedCount'[f] = closedCount[f]
      /\ \A c, d \in Calls : (c # d /\ result'[c] > 0) => result'[d] # result'[c] ]_vars

C6_Witness ==
  \E c \in Calls : result[c] > 0 /\ pendingFrame = 0 /\ closedCount[result[c]] = 0

\* C7: whenever the engine delivers a frame while the slot holds a different
\* frame, the held frame is released exactly once and the new frame is the
\* one stored.
C7_ReplaceReleasesHeld ==
  [][ \A f \in Frames :
        (Delivered(f) /\ pendingFrame # 0 /\ pendingFrame # f)
          => (pendingFrame' = f /\ closedCount'[pendingFrame] = 1) ]_vars

\* C8: a call whose timeout fires before the engine signalled a
\* frame returns no frame, and the timeout leaves the engine's work alone.
C8_TimeoutNoFrame ==
  /\ [](\A c \in Calls : (pc[c] = "done" /\ promise[c] = "timeout") => result[c] = 0)
  /\ [][ (\E c \in Calls : promise[c] = "pending" /\ promise'[c] = "timeout")
           => (engineQueue' = engineQueue /\ decoderState' = decoderState) ]_vars

\* C9: a frame delivered after its call timed out is stored in the slot; if
\* a later frame arrives while it is still held, it is released and the
\* later frame is the one held, unreleased; frames already returned are not
\* released.
C9_LateFrameAccepted ==
  [][ \A f \in Frames :
        Delivered(f) =>
          /\ promise[CallOfFrame(f)] = "timeout" => pendingFrame' = f
          /\ (pendingFrame # 0 /\ pendingFrame # f
                /\ promise[CallOfFrame(pendingFrame)] = "timeout")
               => (closedCount'[pendingFrame] >= 1 /\ pendingFrame' = f
                     /\ closedCount'[f] = 0)
          /\ \A g \in Frames : Returned(g) => closedCount'[g] = closedCount[g] ]_vars

\* C10: when resetForSeek() returns the pending slot is empty, and a call
\* made after the seek never returns a frame decoded from a chunk submitted
\* before it.
C10_SeekClearsPending ==
  /\ [][ (seeks' # seeks /\ decoderState # "closed") => pendingFrame' = 0 ]_vars
  /\ [](\A c \in Calls : (c > seekCall /\ result[c] > 0) => result[c] > seekMark)

\* C11: close() releases the frame held in the pending slot and leaves the
\* slot empty, and no decode() call made after close() returns a frame decoded
\* from a chunk submitted before it.
C11_CloseReleasesPending ==
  /\ [][ (closes' # closes /\ decoderState # "closed")
           => /\ pendingFrame' = 0
              /\ pendingFrame # 0
                   => closedCount'[pendingFrame] = closedCount[pendingFrame] + 1 ]_vars
  /\ [](\A c \in Calls : (c > closeCall /\ result[c] > 0) => result[c] > closeMark)

\* C12: when close() has been called the engine is closed and both caches are
\* unset; a call that starts with both caches unset submits nothing unless its
\* own chunk classifies and carries an SPS that parses.
C12_CloseClearsCaches ==
  [][ /\ closes' # closes
           => (decoderState' = "closed" /\ naluStreamInfo' = "none"
                 /\ videoDecoderConfig' = 0)
      /\ \A c \in Calls :
           (BodyRuns(c) /\ naluStreamInfo = "none" /\ videoDecoderConfig = 0
              /\ submissions' # submissions)
             => /\ identifyNaluStreamInfo(chunkOf'[c]) # "none"
                /\ FirstSps(chunkOf'[c].nalus, 1) # 0
                /\ chunkOf'[c].sps[FirstSps(chunkOf'[c].nalus, 1)] # 0 ]_vars

\* C13: a call that finds the engine closed creates a new engine, emits the
\* warning and goes on with its chunk in the same call: the chunk is
\* classified, and a key chunk with a usable SPS configures the new engine
\* and is submitted to it.
C13_ClosedEngineReacquired ==
  [][ \A c \in Calls :
        (BodyRuns(c) /\ decoderState = "closed")
          => /\ engineGen' = engineGen + 1
             /\ decoderState' \in {"unconfigured", "configured"}
             /\ "warn:closed" \in diag'[c]
             /\ naluStreamInfo' = getNaluStreamInfo(naluStreamInfo, chunkOf'[c])
             /\ chunkOf'[c] = ChunkKey(stream)
                  => /\ decoderState' = "configured"
                     /\ pc'[c] = "awaitOwn"
                     /\ Len(submissions') = Len(submissions) + 1
                     /\ submissions'[Len(submissions')].call = c
                     /\ submissions'[Len(submissions')].gen = engineGen'
                     /\ submissions'[Len(submissions')].accepted ]_vars

C13_Witness ==
  \E c \in Calls :
    /\ "warn:closed" \in diag[c]
    /\ result[c] > 0
    /\ submissions[result[c]].call = c
    /\ submissions[result[c]].gen > 1

\* the submission of call c is the first one made after submission i faulted:
\* the engine threw on submission i, or (no close() having been called) the
\* engine that took submission i was closed by an error and c's chunk went to
\* its replacement
NextAfterFault(i, c) ==
  /\ i \in DOMAIN submissions
  /\ Submitted(c)
  /\ OwnFrame(c) = i + 1
  /\ \/ ~submissions[i].accepted
     \/ closes = 0 /\ submissions[i].gen < submissions[i + 1].gen

\* C14: the call that follows a faulted submission, with a chunk the engine
\* accepts and decodes in time, returns that chunk's frame, unreleased.
C14_FaultIsolated ==
  \A c \in Calls : \A i \in DOMAIN submissions :
    (NextAfterFault(i, c) /\ submissions[i + 1].accepted
       /\ promise[c] = "frame" /\ pc[c] = "done")
      => (result[c] = OwnFrame(c) /\ closedCount[OwnFrame(c)] = 0)

\* C15: a call whose submission the engine rejected with a decode fault has
\* reported the error and returns no frame.
C15_FaultYieldsNoFrame ==
  \A c \in Calls : \A i \in DOMAIN submissions :
    (submissions[i].call = c /\ ~submissions[i].accepted)
      => /\ "error:decode" \in diag[c]
         /\ pc[c] = "done" => result[c] = 0

\* C16: no decode() call ends with a raised error, and a call that met a
\* fault (configure rejected, SPS unusable, engine not configured, decode
\* fault, timeout) returns no frame.
C16_NoFaultFailsCall ==
  \A c \in Calls :
    pc[c] = "done"
      => /\ diag[c] \cap {"throw:configure", "throw:convert"} = {}
         /\ diag[c] \cap {"error:sps", "warn:state", "error:decode", "warn:timeout"} # {}
              => result[c] = 0

\* C17: #hasKeyframe never goes from true back to false.
C17_HasKeyframeMonotonic == [][ hasKeyframe => hasKeyframe' ]_vars

C17_Witness == hasKeyframe /\ seekPending /\ seekMark > 0

\* C18: every submission carries an internal timestamp strictly greater than
\* that of every earlier submission.
C18_TimestampsIncrease ==
  \A i, j \in DOMAIN submissions : i < j => submissions[i].ts < submissions[j].ts

C18_Witness ==
  /\ Len(submissions) >= 2
  /\ submissions[1].gen < submissions[2].gen
  /\ promise[submissions[1].call] = "timeout"
  /\ submissions[2].accepted

\* C19: the caller's timestamp changes nothing but the record of the
\* argument: every step that has the argument at hand (the call itself, and the
\* continuation of a call that waited) leads to the same engine submissions,
\* orchestrator state and returned frames whatever the caller's timestamp is.
C19_CallerTimestampAdvisory ==
  [][ /\ nCalls' # nCalls
           => \A micros \in CallerTimestamps : DecodeStep(chunkOf'[nCalls'], micros)
      /\ (\E c \in Calls : pc[c] = "waitPrev" /\ pc'[c] # "waitPrev")
           => \A micros \in CallerTimestamps : ResumeStep(micros) ]_vars

C19_Witness ==
  \E i, j \in DOMAIN submissions :
    /\ i < j
    /\ callerTs[submissions[i].call] > callerTs[submissions[j].call]
    /\ submissions[i].ts < submissions[j].ts
    /\ awaitingAtCall[submissions[j].call] # {}
    /\ result[submissions[j].call] = j

\* C20: while no close() is called a set #naluStreamInfo never changes, and a
\* call that starts with it set does not classify its chunk again and
\* normalizes it with the set value, whatever the chunk itself would classify
\* as: the call goes on with the chunk, or the conversion under that value
\* fails.
C20_StreamInfoImmutable ==
  [][ /\ (naluStreamInfo # "none" /\ closes' = closes)
           => naluStreamInfo' = naluStreamInfo
      /\ \A c \in Calls :
           (BodyRuns(c) /\ naluStreamInfo # "none")
             => /\ diag'[c] \cap {"error:identify", "error:annexb",
                                   "debug:identified"} = {}
                /\ naluStreamInfo' = naluStreamInfo
                /\ ("throw:convert" \in diag'[c])
                     = (naluStreamInfo = "packet" /\ chunkOf'[c].stream # "packet") ]_vars

C20_Witness ==
  \E c \in Calls :
    /\ chunkOf[c] = ChunkUnknown
    /\ pc[c] = "done"
    /\ "error:identify" \notin diag[c]
    /\ naluStreamInfo = stream
    /\ seeks > 0

\* the configuration step (lines 309-316) of call c looks for an SPS: its chunk
\* is normalized, the engine is unconfigured (or was closed) and nothing is
\* cached
DerivesConfig(c) ==
  /\ BodyRuns(c)
  /\ naluStreamInfo' # "none"
  /\ "throw:convert" \notin diag'[c]
  /\ decoderState \in {"unconfigured", "closed"}
  /\ videoDecoderConfig = 0

\* the first unit of the chunk that parses as an SPS, 0 when there is none
FirstParsingSps(ch) ==
  IF \E i \in DOMAIN ch.sps : ch.sps[i] # 0
  THEN CHOOSE i \in DOMAIN ch.sps :
         ch.sps[i] # 0 /\ \A j \in DOMAIN ch.sps : ch.sps[j] # 0 => i <= j
  ELSE 0

\* what C21 and its amendment share: a cached configuration changes only by
\* close(), it is set only by a decode() call, and configure() is called only
\* on an unconfigured engine, with the cached configuration
ConfigStable ==
  /\ (videoDecoderConfig # 0 /\ closes' = closes)
       => videoDecoderConfig' = videoDecoderConfig
  /\ (videoDecoderConfig = 0 /\ videoDecoderConfig' # 0)
       => \E c \in Calls : DerivesConfig(c)
  /\ \A c \in Calls :
       (BodyRuns(c) /\ "debug:configure" \in diag'[c])
         => /\ decoderState \in {"unconfigured", "closed"}
            /\ videoDecoderConfig' # 0
            /\ "throw:configure" \in diag'[c] \/ engineConfig' = videoDecoderConfig'

\* C21 as claimed: the configuration is derived from the first SPS that
\* parses, never changes until close(), and configure() is called only on an
\* unconfigured engine with the cached configuration.
C21_ConfigFromFirstParsingSps ==
  [][ /\ ConfigStable
      /\ \A c \in Calls :
           (DerivesConfig(c) /\ FirstParsingSps(chunkOf'[c]) # 0)
             => videoDecoderConfig' = chunkOf'[c].sps[FirstParsingSps(chunkOf'[c])] ]_vars

\* C22: resetForSeek() leaves both caches as they are, and a call that finds
\* the engine unconfigured with a configuration cached configures the engine
\* with it, whatever NAL units its chunk holds.
C22_SeekKeepsCaches ==
  [][ /\ seeks' # seeks
           => (naluStreamInfo' = naluStreamInfo
                 /\ videoDecoderConfig' = videoDecoderConfig)
      /\ \A c \in Calls :
           (BodyRuns(c) /\ decoderState = "unconfigured" /\ naluStreamInfo # "none"
              /\ "throw:convert" \notin diag'[c]
              /\ videoDecoderConfig # 0 /\ EngineConfigures(videoDecoderConfig))
             => /\ decoderState' = "configured"
                /\ engineConfig' = videoDecoderConfig
                /\ videoDecoderConfig' = videoDecoderConfig
                /\ "error:sps" \notin diag'[c] ]_vars

C22_Witness ==
  /\ seeks > 0
  /\ engineConfig # 0
  /\ \E c \in Calls : chunkOf[c] = ChunkDelta(stream) /\ "debug:configure" \in diag[c]

\* C23: a call whose chunk does not classify, with no descriptor cached,
\* returns no frame, reports the error, submits nothing and leaves descriptor,
\* configuration, keyframe gate and pending slot as they were; a call whose
\* chunk classifies, with no descriptor cached, sets the descriptor.
C23_UnclassifiedChunkSkipped ==
  [][ \A c \in Calls :
        (BodyRuns(c) /\ naluStreamInfo = "none")
          => IF chunkOf'[c].stream \in {"annexB", "packet"}
             THEN naluStreamInfo' = chunkOf'[c].stream
             ELSE /\ pc'[c] = "done"
                  /\ result'[c] = 0
                  /\ "error:identify" \in diag'[c]
                  /\ naluStreamInfo' = "none"
                  /\ UNCHANGED <<submissions, videoDecoderConfig, hasKeyframe,
                                 pendingFrame, timestamp, listeners, decoding>> ]_vars

C23_Witness ==
  \E c, d \in Calls :
    /\ c < d
    /\ chunkOf[c] = ChunkUnknown /\ "error:identify" \in diag[c] /\ result[c] = 0
    /\ pc[d] = "done" /\ "error:identify" \notin diag[d]
    /\ naluStreamInfo = stream

\* C24: a call that finds nothing cached and whose chunk has no SPS, or a
\* first SPS that does not parse, returns no frame, submits nothing and leaves
\* the configuration unset and #hasKeyframe as it was; the parse failure is
\* reported as an error, the missing SPS is not.
C24_UnconfiguredSkipped ==
  [][ \A c \in Calls :
        (DerivesConfig(c)
           /\ (FirstSps(chunkOf'[c].nalus, 1) = 0
                 \/ chunkOf'[c].sps[FirstSps(chunkOf'[c].nalus, 1)] = 0))
          => /\ pc'[c] = "done"
             /\ result'[c] = 0
             /\ decoderState' = "unconfigured"
             /\ "warn:state" \in diag'[c]
             /\ ("error:sps" \in diag'[c]) = (FirstSps(chunkOf'[c].nalus, 1) # 0)
             /\ diag'[c] \cap {"error:identify", "error:annexb", "error:decode",
                               "throw:configure"} = {}
             /\ UNCHANGED <<submissions, videoDecoderConfig, hasKeyframe>> ]_vars

C24_Witness ==
  /\ ~hasKeyframe
  /\ videoDecoderConfig = 0
  /\ \E c, d \in Calls :
       /\ chunkOf[c] = ChunkBadSps(stream) /\ "error:sps" \in diag[c] /\ result[c] = 0
       /\ chunkOf[d] = ChunkDelta(stream) /\ diag[d] = {"warn:state"} /\ result[d] = 0

\* C25: a fresh orchestrator is fed Delta, Delta, Key, Delta, each call
\* awaited: the first two calls return no frame and submit nothing; the third
\* is submitted as key and the fourth as delta, and each returns a frame, or
\* no frame after its timeout.
C25_GateSequence ==
  /\ \A c \in {1, 2} :
       pc[c] = "done" => (result[c] = 0 /\ ~Submitted(c) /\ promise[c] = "none")
  /\ \A c \in {3, 4} :
       /\ pc[c] # "new"
            => \E i \in DOMAIN submissions :
                 /\ submissions[i].call = c
                 /\ submissions[i].type = (IF c = 3 THEN "key" ELSE "delta")
                 /\ submissions[i].accepted
       /\ pc[c] = "done" => (result[c] \in Frames \/ promise[c] = "timeout")

C25_Witness ==
  /\ pc[4] = "done"
  /\ result[3] = 1
  /\ result[4] = 0

\* C26: a chunk is submitted as key if and only if one of its NAL units has
\* type 5 in the low five bits of its first byte, and as delta otherwise; a
\* chunk fed to a configured orchestrator past its keyframe gate is submitted.
C26_KeyIffIdrUnit ==
  /\ \A i \in DOMAIN submissions :
       submissions[i].type =
         (IF \E k \in DOMAIN chunkOf[submissions[i].call].nalus :
               chunkOf[submissions[i].call].nalus[k] % 32 = 5
          THEN "key" ELSE "delta")
  /\ \A c \in Calls : (c > 1 /\ pc[c] # "new") => Submitted(c)

C26_Witness ==
  /\ chunkOf[2].nalus = <<1, 37>>
  /\ \E i \in DOMAIN submissions : submissions[i].call = 2 /\ submissions[i].type = "key"
  /\ pc[2] = "done"

\* a NAL unit as a bitstream carries it: not empty, with no 00 00 00 and no
\* 00 00 01 inside (emulation prevention) and not ending in 00
NalUnitOk(u) ==
  /\ u # <<>>
  /\ u[Len(u)] # 0
  /\ \A i \in DOMAIN u : ~StartsWith(u, i, <<0, 0, 0>>) /\ ~StartsWith(u, i, ShortStartCode)

\* C27: the frame handed on is the caller's buffer when the cached descriptor
\* is annexB; when it is packet, the frame is the payloads of the buffer (read
\* with the cached box size) in their order, each behind 00 00 00 01; this
\* holds of the first buffer and of a later one.
C27_FrameBytes ==
  probe.stage \in {"normalized", "next"}
    => /\ probe.info.type = "annexB" => probe.frame = [ok |-> TRUE, threw |-> FALSE, buf |-> probe.data]
       /\ (probe.info.type = "packet" /\ probe.frame.ok)
            => probe.frame.buf =
                 BuildAnnexB(IterateLengthPrefixed(probe.data, 1, probe.info.boxSize).units)
       /\ (probe.info.type = "packet" /\ probe.form = probe.info)
            => probe.frame = [ok |-> TRUE, threw |-> FALSE, buf |-> BuildAnnexB(probe.units)]
       /\ probe.info = NoInfo => ~probe.frame.ok

C27_Witness ==
  /\ probe.stage = "next"
  /\ probe.info = [type |-> "packet", boxSize |-> 4]
  /\ probe.form = probe.info
  /\ probe.units = <<<<1, 1>>, <<1, 0, 1>>>>
  /\ probe.frame.buf = <<0, 0, 0, 1, 1, 1, 0, 0, 0, 1, 1, 0, 1>>

\* C28 as claimed: for every length-prefixed buffer, the units of its Annex B
\* conversion are the units of the buffer.
C28_RoundTrip ==
  (probe.stage = "normalized" /\ probe.form.type = "packet")
    => /\ probe.converted.ok
       /\ IterateAnnexB(probe.converted.buf, 1, <<>>)
            = Iterate(probe.data, probe.form).units

\* C28 amended: the same for every length-prefixed buffer whose payloads are
\* NAL units (not empty, no 00 00 00 or 00 00 01 inside, not ending in 00).
C28_RoundTripOfNalUnits ==
  (probe.stage = "normalized" /\ probe.form.type = "packet"
     /\ \A i \in DOMAIN probe.units : NalUnitOk(probe.units[i]))
    => /\ probe.converted.ok
       /\ IterateAnnexB(probe.converted.buf, 1, <<>>)
            = Iterate(probe.data, probe.form).units
       /\ Iterate(probe.data, probe.form).units = probe.units

C28_Witness ==
  /\ probe.stage = "normalized"
  /\ probe.form = [type |-> "packet", boxSize |-> 2]
  /\ probe.units = <<<<1, 0, 1>>, <<1>>>>
  /\ IterateAnnexB(probe.converted.buf, 1, <<>>) = probe.units

\* C29: a buffer built from NAL units with 4-byte big-endian lengths
\* classifies as packet with box size 4, the buffer built from them with
\* 00 00 00 01 markers classifies as annexB, and iterating either yields the
\* units in order.
C29_ClassifyBuilt ==
  (probe.stage = "identified"
     /\ \A i \in DOMAIN probe.units :
          NalUnitOk(probe.units[i]) /\ probe.units[i][1] % 32 # 0)
    => /\ probe.form = [type |-> "packet", boxSize |-> 4]
            => (probe.kind = probe.form /\ probe.nalus = [ok |-> TRUE, units |-> probe.units])
       /\ probe.form.type = "annexB"
            => (probe.kind.type = "annexB"
                  /\ probe.nalus = [ok |-> TRUE, units |-> probe.units])

\* v followed by n further bits, as a number
ShiftLeft(v, n) == IF v = 0 THEN 0 ELSE v * 2^n

\* the cursor after the i-th read of the reader
CursorAfter(i) == IF i = Len(probe.reads) THEN probe.pos ELSE probe.reads[i + 1].at

\* C30: a read of n bits succeeds if and only if n bits remain, and fails
\* with Truncated otherwise; a read that succeeds advances the cursor by n;
\* two reads of n1 and n2 bits in a row (n1 + n2 <= 32) return the value of one
\* read of n1 + n2 bits from the same place, split at n1.
C30_SplitReads ==
  probe.stage = "reading"
    => /\ \A i \in DOMAIN probe.reads :
            LET r == probe.reads[i] IN
            /\ r.ok = (r.at + r.n <= 8 * Len(probe.bytes))
            /\ CursorAfter(i) = (IF r.ok THEN r.at + r.n ELSE r.at)
       /\ (probe.reads # <<>> /\ ~probe.reads[Len(probe.reads)].ok)
            => probe.err = "Truncated"
       /\ \A i \in DOMAIN probe.reads :
            (i < Len(probe.reads) /\ probe.reads[i].ok /\ probe.reads[i + 1].ok
               /\ probe.reads[i].n + probe.reads[i + 1].n <= WordBits)
              => ShiftLeft(probe.reads[i].value, probe.reads[i + 1].n)
                   + probe.reads[i + 1].value
                 = BitsValue(probe.bytes, probe.reads[i].at,
                             probe.reads[i].n + probe.reads[i + 1].n)

C30_Witness ==
  /\ probe.stage = "reading"
  /\ probe.bytes = <<103, 66, 0, 30>>
  /\ Len(probe.reads) = 2
  /\ probe.reads[1] = [n |-> 5, at |-> 3, ok |-> TRUE, value |-> 7]
  /\ probe.reads[2] = [n |-> 8, at |-> 8, ok |-> TRUE, value |-> 66]
  /\ probe.pos = 16

\* the bits from offset p are k zeros, a 1 and k further bits of the reader
CodeAt(p, k) ==
  /\ p + 2 * k + 1 <= 8 * Len(probe.bytes)
  /\ \A j \in 0..(k - 1) : BitAt(probe.bytes, p + j) = 0
  /\ BitAt(probe.bytes, p + k) = 1

\* C31: readExpGolomb() succeeds if and only if the bits from the cursor are k
\* zeros, a 1 and k more bits; it then returns 2^k - 1 plus the k bits read
\* most significant first and leaves the cursor 2k+1 bits on; otherwise it
\* fails with Truncated.
C31_ExpGolomb ==
  probe.stage = "golomb"
    => \A i \in DOMAIN probe.reads :
         LET r == probe.reads[i] IN
         /\ r.ok = (\E k \in 0..(8 * Len(probe.bytes)) : CodeAt(r.at, k))
         /\ \A k \in 0..(8 * Len(probe.bytes)) :
              (r.ok /\ CodeAt(r.at, k))
                => /\ r.value = 2^k - 1 + readUnsigned(probe.bytes, r.at + k + 1, k).value
                   /\ r.next = r.at + 2 * k + 1
         /\ (~r.ok /\ i = Len(probe.reads)) => probe.err = "Truncated"
         /\ ~r.ok => r.next = r.at

C31_Witness ==
  /\ probe.stage = "golomb"
  /\ probe.bytes = <<5, 64>>
  /\ Len(probe.reads) = 2
  /\ probe.reads[1] = [at |-> 3, ok |-> TRUE, value |-> 4, next |-> 8]
  /\ probe.reads[2] = [at |-> 8, ok |-> TRUE, value |-> 1, next |-> 11]

\* the SPS with profile 66, level 30, 20 by 15 macroblocks, frames only, not
\* cropped
ReferenceSps ==
  [profile |-> 66, level |-> 30, pocType |-> 0, widthInMbs |-> 19,
   heightInMapUnits |-> 14, frameMbsOnly |-> 1, crop |-> <<0, 0, 0, 0>>]

\* C32: an SPS with frame_mbs_only_flag 1 and no cropping parses to picWidth
\* (pic_width_in_mbs_minus1 + 1) * 16 and picHeight
\* (pic_height_in_map_units_minus1 + 1) * 16, 320 by 240 for the reference
\* SPS, and the configuration made from it has them as codedWidth and
\* codedHeight.
C32_SpsGeometry ==
  (probe.stage \in {"parsed", "config"} /\ probe.fields.frameMbsOnly = 1
     /\ probe.fields.crop = <<0, 0, 0, 0>>)
    => /\ probe.sps.ok
       /\ probe.sps.picWidth = (probe.fields.widthInMbs + 1) * 16
       /\ probe.sps.picHeight = (probe.fields.heightInMapUnits + 1) * 16
       /\ probe.fields = ReferenceSps
            => (probe.sps.picWidth = 320 /\ probe.sps.picHeight = 240)
       /\ probe.stage = "config"
            => /\ probe.config.ok
               /\ probe.config.codedWidth = (probe.fields.widthInMbs + 1) * 16
               /\ probe.config.codedHeight = (probe.fields.heightInMapUnits + 1) * 16

C32_Witness ==
  /\ probe.stage = "config"
  /\ probe.fields = ReferenceSps
  /\ probe.nalu = <<103, 66, 0, 30, 244, 10, 15, 200>>
  /\ probe.config = [ok |-> TRUE, codec |-> <<"avc1.", "4", "2", "0", "0", "1", "e">>,
                     codedHeight |-> 240, codedWidth |-> 320, optimizeForLatency |-> TRUE]

\* C33: every frame a decode() call returns is unreleased at the moment it is
\* returned.
C33_ReturnedFrameUnreleased ==
  [][ \A c \in Calls :
        (pc[c] # "done" /\ pc'[c] = "done" /\ result'[c] > 0)
          => closedCount'[result'[c]] = 0 ]_vars

\* C34: every frame the engine has output is held in the pending slot, was
\* returned to a caller, or was released by the orchestrator.
C34_NoFrameLost ==
  \A f \in outputs :
    \/ pendingFrame = f
    \/ \E c \in Calls : result[c] = f
    \/ closedCount[f] > 0

\* C35: every delta chunk submitted to the engine follows a key chunk
\* submitted to the same engine instance, with no reset of the engine since
\* that key chunk.
C35_DeltaFollowsKey ==
  \A i \in DOMAIN submissions :
    submissions[i].type = "delta"
      => /\ \E j \in 1..(i - 1) :
              /\ submissions[j].type = "key"
              /\ submissions[j].gen = submissions[i].gen
         /\ ~submissions[i].needKey

\* C36: with timers that fire, every decode() call that has started
\* eventually completes.
C36_EveryCallCompletes ==
  \A c \in Calls : (pc[c] \in {"waitPrev", "awaitOwn"}) ~> (pc[c] = "done")

C36_Witness ==
  /\ pc[1] = "done" /\ pc[2] = "done"
  /\ 1 \in awaitingAtCall[2]
  /\ promise[1] = "timeout" /\ promise[2] = "timeout"
  /\ faults = 1 /\ decoderState = "closed"

\* call c runs lines 291-331 in this step and meets one of the three skips:
\* its chunk does not classify, the engine is not configured once the
\* configuration was attempted, or its chunk is a delta chunk before the
\* first key chunk
SkipCase(c) ==
  /\ BodyRuns(c)
  /\ diag'[c] \cap {"throw:configure", "throw:convert"} = {}
  /\ \/ getNaluStreamInfo(naluStreamInfo, chunkOf'[c]) = "none"
     \/ decoderState' # "configured"
     \/ ~hasKeyframe /\ IsDelta(chunkOf'[c])

\* C37: a skipped call returns no frame and leaves the internal timestamp,
\* the registered listeners and timers, the in-flight marker and the pending
\* slot as they were; a frame held in the slot stays held, unreleased.
C37_SkipTouchesNothing ==
  [][ \A c \in Calls :
        SkipCase(c)
          => /\ pc'[c] = "done"
             /\ result'[c] = 0
             /\ UNCHANGED <<timestamp, listeners, timers, decoding, promise,
                            pendingFrame, closedCount, submissions>> ]_vars

C37_Witness ==
  \E c \in Calls :
    /\ pc[c] = "done" /\ result[c] = 0
    /\ chunkOf[c] = ChunkDelta(stream) /\ diag[c] = {"warn:closed", "debug:identified", "warn:state"}
    /\ closes = 1
    /\ pendingFrame = 1 /\ closedCount[1] = 0 /\ 1 \in outputs

\* C38: when no decode() call is unfinished, no "frame" listener of any call
\* is registered and #decoding is unset.
C38_NoListenerLeft ==
  (\A c \in Calls : pc[c] \in {"new", "done"})
    => (listeners = <<>> /\ decoding = 0)

====
